---- MODULE Spec2Model ----
(***************************************************************************)
(* Model of src/src/lib/antrag-file-utils.ts: validateAntragFiles,         *)
(* uploadAntragFiles and deleteAntragFiles, run against a blob store whose *)
(* put and del may succeed or raise on every call.                         *)
(*                                                                         *)
(* One behaviour is one call (op = "upload" or op = "delete") with inputs  *)
(* chosen in Init.  An action is the code that runs between two awaits     *)
(* (JavaScript runs it without interleaving).  trace is a history variable *)
(* recording every store operation, backoff wait and cleanup invocation.   *)
(***************************************************************************)
EXTENDS Integers, Sequences, FiniteSets, TLC

(* ---------------- bounds of the model ---------------- *)
MaxFiles == 3
MaxRetriesBound == 3
MaxUrls == 2

(* ---------------- program constants ---------------- *)
\* a cleanup that retries more often than the default
DefaultMaxRetries_More == 3 + 2

\* default parameters of deleteAntragFiles (used by the compensating cleanup)
DefaultMaxRetries == 3
DefaultRetryDelay == 1000

\* FILE_SIZE_LIMITS / FILE_TYPES of ./validation/file-schemas, in scaled units
ANTRAG_COUNT == 2
ANTRAG == 2
ANTRAG_TOTAL == 3
FILE_TYPES_ANTRAG == {"application/pdf"}

\* retryDelay values a caller passes (1000 is the default)
RetryDelays == {1000, 250}
\* new Date().getTime() at the start of the call
Timestamps == {1700}

(* ---------------- the File objects a caller can pass ---------------- *)
\* name is a sequence of characters; named = FALSE is an object whose name is
\* undefined; readable = FALSE is a File whose arrayBuffer() rejects.
FileA == [named |-> TRUE, name |-> <<"a", " ", "b">>, size |-> 1, type |-> "application/pdf", readable |-> TRUE]
FileB == [named |-> TRUE, name |-> <<"a", "-", "b">>, size |-> 2, type |-> "application/pdf", readable |-> TRUE]
FileC == [named |-> TRUE, name |-> <<"c">>, size |-> 3, type |-> "application/pdf", readable |-> TRUE]
FileD == [named |-> TRUE, name |-> <<"d", " ", " ">>, size |-> 1, type |-> "application/x-msdownload", readable |-> TRUE]
FileE == [named |-> FALSE, name |-> <<>>, size |-> 1, type |-> "application/pdf", readable |-> TRUE]
FileF == [named |-> TRUE, name |-> <<"f">>, size |-> 1, type |-> "application/pdf", readable |-> FALSE]
FileUniverse == {FileA, FileB, FileC, FileD, FileE, FileF}

SeqsUpTo(S, n) == UNION {[1..k -> S] : k \in 0..n}

(* ---------------- pure helpers ---------------- *)
RECURSIVE Pow2(_)
Pow2(n) == IF n <= 0 THEN 1 ELSE 2 * Pow2(n - 1)

\* a linear instead of an exponential backoff
BackoffDelay_Linear(retryDelay, attempt) == retryDelay * (attempt + 1)

\* a backoff whose exponent is one too high
BackoffDelay_Double(retryDelay, attempt) == retryDelay * Pow2(attempt + 1)

\* retryDelay * Math.pow(2, attempt)
BackoffDelay(retryDelay, attempt) == retryDelay * Pow2(attempt)

IsSpace(c) == c = " "

\* file.name.replace(/\s+/g, '-'): every maximal run of whitespace becomes one '-'
RECURSIVE Sanitize(_)
Sanitize(s) ==
  IF s = <<>> THEN <<>>
  ELSE IF IsSpace(Head(s))
       THEN IF Len(s) > 1 /\ IsSpace(s[2])
            THEN Sanitize(Tail(s))
            ELSE <<"-">> \o Sanitize(Tail(s))
       ELSE <<Head(s)>> \o Sanitize(Tail(s))

\* `antraege/${timestamp}-${i}-${sanitizedFileName}` with the 0-based index i
BlobPathname(ts, i, file) == <<"antraege", ts, i - 1, Sanitize(file.name)>>

\* the url the store returns for a pathname (addRandomSuffix: false)
UrlOf(path) == <<"https://blob">> \o path

RECURSIVE SumSizes(_)
SumSizes(fs) == IF fs = <<>> THEN 0 ELSE Head(fs).size + SumSizes(Tail(fs))

(* ---------------- errors ---------------- *)
NoError == [kind |-> "none", message |-> <<>>]
\* new ValidationError({ files: msg })
ValidationError(msg) == [kind |-> "ValidationError", message |-> <<"files", msg>>]
\* AppError.fileUpload(`Fehler beim Hochladen der Datei "${file.name}"...`)
FileUploadError(file) == [kind |-> "AppError", message |-> <<"Datei", file.name>>]
\* AppError.fileUpload('Fehler beim Hochladen der Dateien...')
GenericUploadError == [kind |-> "AppError", message |-> <<"Dateien">>]
\* file.name.replace on an object without a name
TypeError == [kind |-> "TypeError", message |-> <<>>]

(* ---------------- validation ---------------- *)
\* what validateFiles looks at: count, per-file size, media type
FileErrors(files, countLimit, sizeLimit, allow) ==
  (IF Len(files) > countLimit THEN <<"count">> ELSE <<>>)
  \o (IF \E k \in 1..Len(files) : files[k].size > sizeLimit THEN <<"size">> ELSE <<>>)
  \o (IF \E k \in 1..Len(files) : files[k].type \notin allow THEN <<"type">> ELSE <<>>)

\* validateFiles(files, countLimit, perFileSizeLimit, allowList)
\*   -> { isValid: bool, errors?: sequence of string }
\* style says how an invalid result carries its errors: "list" (the
\* messages), "empty" (an empty list) or "absent" (no errors property,
\* hasErrors = FALSE).
ValidateFiles(files, countLimit, sizeLimit, allow, style) ==
  LET errs == FileErrors(files, countLimit, sizeLimit, allow)
  IN  [isValid   |-> errs = <<>>,
       hasErrors |-> errs # <<>> /\ style # "absent",
       errors    |-> IF errs = <<>> \/ style # "list" THEN <<>> ELSE errs]

\* !validationResult.isValid && validationResult.errors  (an empty array is truthy)
BasicValidationFails(res) == ~res.isValid /\ res.hasErrors

\* validateAntragFiles: NoError when it returns, else the ValidationError thrown
ValidateAntragFiles(files, style) ==
  IF Len(files) = 0 THEN NoError
  ELSE LET res == ValidateFiles(files, ANTRAG_COUNT, ANTRAG, FILE_TYPES_ANTRAG, style)
       IN  IF BasicValidationFails(res)
           THEN ValidationError(IF res.errors # <<>> THEN res.errors[1] ELSE "required")
           ELSE IF SumSizes(files) > ANTRAG_TOTAL
                THEN ValidationError("fileSizeExceeds")
                ELSE NoError

(* ---------------- state ---------------- *)
VARIABLES
  op,            \* "upload" | "delete": the exported function that is called
  files,         \* uploadAntragFiles: files
  maxRetries,    \* maxRetries argument of the call
  retryDelay,    \* retryDelay argument of the call
  vfStyle,       \* how validateFiles reports an invalid batch
  urls,          \* deleteAntragFiles: urls (top-level call)
  pc,            \* position in uploadAntragFiles
  timestamp,     \* const timestamp
  i,             \* loop index (1-based here, i-1 in the code)
  attempt,       \* let attempt
  uploaded,      \* let uploaded
  blobPathname,  \* const blobPathname
  uploadedUrls,  \* const uploadedUrls
  pending,       \* the error caught by the outer catch
  dpc,           \* position in deleteAntragFiles
  dCaller,       \* who awaits deleteAntragFiles: "top" | "inner" | "outer"
  dUrls,         \* deleteAntragFiles: urls
  dMaxRetries,   \* deleteAntragFiles: maxRetries
  dRetryDelay,   \* deleteAntragFiles: retryDelay
  dAttempt,      \* deleteAntragFiles: attempt
  deletedUrls,   \* deleteAntragFiles: deletedUrls
  remainingUrls, \* deleteAntragFiles: remainingUrls
  dResult,       \* value deleteAntragFiles returned
  store,         \* urls of the blobs currently in the blob store
  trace,         \* history: store calls, waits, cleanup invocations
  outcome,       \* "running" | "returned" | "raised"
  retval,        \* value returned to the caller
  error,         \* error raised to the caller
  bpc,           \* vercel-build.js: position in main
  stepLog,       \* vercel-build.js: the db steps called so far, with their results
  exitCode,      \* vercel-build.js: argument of process.exit, -1 while running
  calls,         \* SpecPair: the locals of two interleaved uploadAntragFiles calls
  blobs,         \* SpecPair: urls of the blobs in the store both calls use
  now            \* SpecPair: the clock read by new Date().getTime()

inputVars == <<op, files, maxRetries, retryDelay, vfStyle, urls>>
upVars == <<pc, timestamp, i, attempt, uploaded, blobPathname, uploadedUrls, pending>>
delVars == <<dpc, dCaller, dUrls, dMaxRetries, dRetryDelay, dAttempt, deletedUrls, remainingUrls, dResult>>
endVars == <<outcome, retval, error>>
buildVars == <<bpc, stepLog, exitCode>>
pairVars == <<calls, blobs, now>>
soloVars == <<inputVars, upVars, delVars, endVars, store, trace>>
vars == <<soloVars, buildVars, pairVars>>

Ev(e, f, a) == [ev |-> e, file |-> f, arg |-> a]
NoResult == [success |-> FALSE, deletedUrls |-> <<>>, set |-> FALSE]
DelResult(ok, del) == [success |-> ok, deletedUrls |-> del, set |-> TRUE]

\* urls a caller of deleteAntragFiles can pass
UrlUniverse == {UrlOf(BlobPathname(1700, k, FileA)) : k \in 1..MaxUrls}

SeqRange(s) == {s[k] : k \in 1..Len(s)}

\* the locals of a call before it starts
LocalsInit ==
  /\ pc = "start"
  /\ timestamp = 0
  /\ i = 0
  /\ attempt = 0
  /\ uploaded = FALSE
  /\ blobPathname = <<>>
  /\ uploadedUrls = <<>>
  /\ pending = NoError
  /\ dpc = "idle"
  /\ dCaller = "none"
  /\ dUrls = <<>>
  /\ dMaxRetries = 0
  /\ dRetryDelay = 0
  /\ dAttempt = 0
  /\ deletedUrls = <<>>
  /\ remainingUrls = <<>>
  /\ dResult = NoResult
  /\ trace = <<>>
  /\ outcome = "running"
  /\ retval = <<>>
  /\ error = NoError

\* the state of everything that is not running in a behaviour
SoloIdle ==
  /\ files = <<>> /\ vfStyle = "list" /\ urls = <<>> /\ store = {}
  /\ maxRetries = DefaultMaxRetries /\ retryDelay = DefaultRetryDelay
PairIdle == calls = <<>> /\ blobs = {} /\ now = 0

Init ==
  /\ op \in {"upload", "delete", "build"}
  /\ bpc = (IF op = "build" THEN "main" ELSE "idle")
  /\ stepLog = <<>>
  /\ exitCode = -1
  /\ PairIdle
  /\ IF op = "build" THEN SoloIdle ELSE
     /\ maxRetries \in -1..MaxRetriesBound
     /\ retryDelay \in RetryDelays
     /\ IF op = "upload"
       THEN /\ files \in SeqsUpTo(FileUniverse, MaxFiles)
            /\ vfStyle \in (IF FileErrors(files, ANTRAG_COUNT, ANTRAG, FILE_TYPES_ANTRAG) = <<>>
                            THEN {"list"} ELSE {"list", "empty", "absent"})
            /\ urls = <<>>
            /\ store = {}
       ELSE /\ files = <<>>
            /\ vfStyle = "list"
            /\ urls \in SeqsUpTo(UrlUniverse, MaxUrls)
            /\ store = SeqRange(urls)
  /\ LocalsInit

(* ---------------- completion ---------------- *)
Return(v) == outcome' = "returned" /\ retval' = v /\ error' = NoError
Raise(e) == outcome' = "raised" /\ error' = e /\ retval' = <<>>

\* an outer catch that lets only ValidationError through
OuterRethrows_ValidationOnly(e) == e.kind = "ValidationError"

\* an outer catch that re-throws whatever it caught
OuterRethrows_All(e) == TRUE

\* the outer catch re-throws: error instanceof ValidationError || error instanceof AppError
OuterRethrows(e) == e.kind \in {"ValidationError", "AppError"}

\* an inner catch that never gives up
Exhausted_Never(att, maxR) == FALSE

\* an inner catch that gives up one attempt late
Exhausted_OffByOne(att, maxR) == att > maxR

\* the inner catch gives up on the file: attempt >= maxRetries
Exhausted(att, maxR) == att >= maxR

\* a cleanup guard that is off by one
NeedsCleanup_MoreThanOne(uploadedSoFar) == Len(uploadedSoFar) > 1

\* cleanup that is never run
NeedsCleanup_Never(uploadedSoFar) == FALSE

\* both cleanup sites are guarded by uploadedUrls.length > 0
NeedsCleanup(uploadedSoFar) == Len(uploadedSoFar) > 0

\* an upload that does not validate
UploadPrecheck_Skipped(fs, style) == NoError

\* line 88: uploadAntragFiles validates before anything else
UploadPrecheck(fs, style) == ValidateAntragFiles(fs, style)

\* an inner catch that throws the generic error
InnerThrow_Generic(file) == GenericUploadError

\* lines 139-141: the error the inner catch throws for the file it gave up on
InnerThrow(file) == FileUploadError(file)

\* an empty list reported as a failure
EmptyDeleteResult_Failure == DelResult(FALSE, <<>>)

\* line 189: the result for an empty url list
EmptyDeleteResult == DelResult(TRUE, <<>>)

\* exhausted retries reported as success
ExhaustedResult_Success(deleted) == DelResult(TRUE, deleted)

\* lines 219-222: the result once every attempt has failed
ExhaustedResult(deleted) == DelResult(FALSE, deleted)

\* what the caller of deleteAntragFiles receives
Outcome(r) == [success |-> r.success, deletedUrls |-> r.deletedUrls]

\* the pathname is remembered instead of the url
PushUrl_Path(uploadedSoFar, url) == Append(uploadedSoFar, Tail(url))

\* uploadedUrls.push(url)
PushUrl(uploadedSoFar, url) == Append(uploadedSoFar, url)

\* deleteAntragFiles(urls, maxRetries, retryDelay) up to its while loop;
\* the empty list returns at once
EnterDelete(caller, us, maxR, delay) ==
  /\ dCaller' = caller
  /\ dUrls' = us
  /\ dMaxRetries' = maxR
  /\ dRetryDelay' = delay
  /\ dAttempt' = 0
  /\ deletedUrls' = <<>>
  /\ IF Len(us) = 0
     THEN /\ remainingUrls' = <<>>
          /\ dResult' = EmptyDeleteResult
          /\ dpc' = "ret"
     ELSE /\ remainingUrls' = us
          /\ dResult' = NoResult
          /\ dpc' = "while"

(* ---------------- uploadAntragFiles ---------------- *)
\* lines 87-96: validate, empty batch, timestamp
Validate ==
  /\ op = "upload" /\ pc = "start"
  /\ LET v == UploadPrecheck(files, vfStyle)
     IN  IF v # NoError
         THEN /\ Raise(v)
              /\ pc' = "done"
              /\ UNCHANGED <<timestamp, i>>
         ELSE IF Len(files) = 0
         THEN /\ Return(<<>>)
              /\ pc' = "done"
              /\ UNCHANGED <<timestamp, i>>
         ELSE /\ timestamp' \in Timestamps
              /\ i' = 1
              /\ pc' = "for"
              /\ UNCHANGED endVars
  /\ UNCHANGED <<buildVars, pairVars, inputVars, attempt, uploaded, blobPathname, uploadedUrls, pending, delVars, store, trace>>

\* lines 100-106 and 153: loop test, path derivation, or return uploadedUrls
ForStep ==
  /\ pc = "for"
  /\ IF i > Len(files)
     THEN /\ Return(uploadedUrls)
          /\ pc' = "done"
          /\ UNCHANGED <<attempt, uploaded, blobPathname, pending>>
     ELSE IF ~files[i].named
     THEN /\ pending' = TypeError
          /\ pc' = "outer"
          /\ UNCHANGED <<attempt, uploaded, blobPathname, endVars>>
     ELSE /\ blobPathname' = BlobPathname(timestamp, i, files[i])
          /\ attempt' = 0
          /\ uploaded' = FALSE
          /\ pc' = "while"
          /\ UNCHANGED <<pending, endVars>>
  /\ UNCHANGED <<buildVars, pairVars, inputVars, timestamp, i, uploadedUrls, delVars, store, trace>>

\* lines 108-117: while test; arrayBuffer(); put(...) is issued
WhileStep ==
  /\ pc = "while"
  /\ IF attempt <= maxRetries /\ ~uploaded
     THEN IF files[i].readable
          THEN /\ trace' = Append(trace, Ev("put", i, blobPathname))
               /\ pc' = "put"
               /\ UNCHANGED i
          ELSE /\ trace' = Append(trace, Ev("readErr", i, attempt))
               /\ pc' = "catch"
               /\ UNCHANGED i
     ELSE /\ i' = i + 1
          /\ pc' = "for"
          /\ UNCHANGED trace
  /\ UNCHANGED <<buildVars, pairVars, inputVars, timestamp, attempt, uploaded, blobPathname, uploadedUrls, pending, delVars, endVars, store>>

\* lines 117-126: put resolves with { url }
PutReturns ==
  /\ pc = "put"
  /\ LET url == UrlOf(blobPathname)
     IN  /\ store' = store \cup {url}
         /\ uploadedUrls' = PushUrl(uploadedUrls, url)
         /\ trace' = Append(trace, Ev("putOk", i, url))
  /\ uploaded' = TRUE
  /\ pc' = "while"
  /\ UNCHANGED <<buildVars, pairVars, inputVars, timestamp, i, attempt, blobPathname, pending, delVars, endVars>>

\* line 127: put rejects
PutRaises ==
  /\ pc = "put"
  /\ trace' = Append(trace, Ev("putErr", i, attempt))
  /\ pc' = "catch"
  /\ UNCHANGED <<buildVars, pairVars, inputVars, timestamp, i, attempt, uploaded, blobPathname, uploadedUrls, pending, delVars, endVars, store>>

\* lines 128-147: the inner catch up to its await
Catch ==
  /\ pc = "catch"
  /\ IF Exhausted(attempt, maxRetries)
     THEN IF NeedsCleanup(uploadedUrls)
          THEN /\ EnterDelete("inner", uploadedUrls, DefaultMaxRetries, DefaultRetryDelay)
               /\ trace' = Append(trace, Ev("cleanup", i, uploadedUrls))
               /\ pc' = "cleanup"
               /\ UNCHANGED pending
          ELSE /\ pending' = InnerThrow(files[i])
               /\ pc' = "outer"
               /\ UNCHANGED <<delVars, trace>>
     ELSE /\ trace' = Append(trace, Ev("sleep", i, BackoffDelay(retryDelay, attempt)))
          /\ pc' = "sleep"
          /\ UNCHANGED <<pending, delVars>>
  /\ UNCHANGED <<buildVars, pairVars, inputVars, timestamp, i, attempt, uploaded, blobPathname, uploadedUrls, endVars, store>>

\* lines 147-148: the timer fires; attempt++
SleepDone ==
  /\ pc = "sleep"
  /\ trace' = Append(trace, Ev("wake", i, attempt))
  /\ attempt' = attempt + 1
  /\ pc' = "while"
  /\ UNCHANGED <<buildVars, pairVars, inputVars, timestamp, i, uploaded, blobPathname, uploadedUrls, pending, delVars, endVars, store>>

\* lines 134-141: the cleanup of the inner catch has settled; throw the per-file error
CleanupDoneInner ==
  /\ pc = "cleanup" /\ dpc = "ret" /\ dCaller = "inner"
  /\ dpc' = "idle"
  /\ pending' = InnerThrow(files[i])
  /\ pc' = "outer"
  /\ UNCHANGED <<buildVars, pairVars, inputVars, timestamp, i, attempt, uploaded, blobPathname, uploadedUrls,
                 dCaller, dUrls, dMaxRetries, dRetryDelay, dAttempt, deletedUrls, remainingUrls, dResult,
                 endVars, store, trace>>

\* lines 154-166: the outer catch up to its await
OuterCatch ==
  /\ pc = "outer"
  /\ IF OuterRethrows(pending)
     THEN /\ Raise(pending)
          /\ pc' = "done"
          /\ UNCHANGED <<delVars, trace>>
     ELSE IF NeedsCleanup(uploadedUrls)
     THEN /\ EnterDelete("outer", uploadedUrls, DefaultMaxRetries, DefaultRetryDelay)
          /\ trace' = Append(trace, Ev("cleanup", i, uploadedUrls))
          /\ pc' = "outerCleanup"
          /\ UNCHANGED endVars
     ELSE /\ Raise(GenericUploadError)
          /\ pc' = "done"
          /\ UNCHANGED <<delVars, trace>>
  /\ UNCHANGED <<buildVars, pairVars, inputVars, timestamp, i, attempt, uploaded, blobPathname, uploadedUrls, pending, store>>

\* lines 163-171: the cleanup of the outer catch has settled; throw the generic error
CleanupDoneOuter ==
  /\ pc = "outerCleanup" /\ dpc = "ret" /\ dCaller = "outer"
  /\ dpc' = "idle"
  /\ Raise(GenericUploadError)
  /\ pc' = "done"
  /\ UNCHANGED <<buildVars, pairVars, inputVars, timestamp, i, attempt, uploaded, blobPathname, uploadedUrls, pending,
                 dCaller, dUrls, dMaxRetries, dRetryDelay, dAttempt, deletedUrls, remainingUrls, dResult,
                 store, trace>>

(* ---------------- deleteAntragFiles ---------------- *)
\* lines 183-196: the exported function is called by the application
DeleteCall ==
  /\ op = "delete" /\ pc = "start"
  /\ EnterDelete("top", urls, maxRetries, retryDelay)
  /\ pc' = "delete"
  /\ UNCHANGED <<buildVars, pairVars, inputVars, timestamp, i, attempt, uploaded, blobPathname, uploadedUrls, pending, endVars, store, trace>>

\* lines 198-205 and 234-237: while test; del(remainingUrls) is issued
DelWhile ==
  /\ dpc = "while"
  /\ IF dAttempt <= dMaxRetries /\ Len(remainingUrls) > 0
     THEN /\ trace' = Append(trace, Ev("del", dAttempt, remainingUrls))
          /\ dpc' = "del"
          /\ UNCHANGED dResult
     ELSE /\ dResult' = DelResult(Len(deletedUrls) = Len(dUrls), deletedUrls)
          /\ dpc' = "ret"
          /\ UNCHANGED trace
  /\ UNCHANGED <<buildVars, pairVars, inputVars, upVars, dCaller, dUrls, dMaxRetries, dRetryDelay, dAttempt, deletedUrls, remainingUrls, endVars, store>>

\* lines 205-212: del resolves
DelReturns ==
  /\ dpc = "del"
  /\ store' = store \ SeqRange(remainingUrls)
  /\ trace' = Append(trace, Ev("delOk", dAttempt, remainingUrls))
  /\ deletedUrls' = deletedUrls \o remainingUrls
  /\ remainingUrls' = <<>>
  /\ dResult' = DelResult(TRUE, deletedUrls')
  /\ dpc' = "ret"
  /\ UNCHANGED <<buildVars, pairVars, inputVars, upVars, dCaller, dUrls, dMaxRetries, dRetryDelay, dAttempt, endVars>>

\* lines 213-228: del rejects
DelRaises ==
  /\ dpc = "del"
  /\ IF Exhausted(dAttempt, dMaxRetries)
     THEN /\ trace' = Append(trace, Ev("delErr", dAttempt, remainingUrls))
          /\ dResult' = ExhaustedResult(deletedUrls)
          /\ dpc' = "ret"
     ELSE /\ trace' = Append(Append(trace, Ev("delErr", dAttempt, remainingUrls)),
                             Ev("dsleep", dAttempt, BackoffDelay(dRetryDelay, dAttempt)))
          /\ dpc' = "sleep"
          /\ UNCHANGED dResult
  /\ UNCHANGED <<buildVars, pairVars, inputVars, upVars, dCaller, dUrls, dMaxRetries, dRetryDelay, dAttempt, deletedUrls, remainingUrls, endVars, store>>

\* lines 228-229: the timer fires; attempt++
DelSleepDone ==
  /\ dpc = "sleep"
  /\ trace' = Append(trace, Ev("dwake", dAttempt, <<>>))
  /\ dAttempt' = dAttempt + 1
  /\ dpc' = "while"
  /\ UNCHANGED <<buildVars, pairVars, inputVars, upVars, dCaller, dUrls, dMaxRetries, dRetryDelay, deletedUrls, remainingUrls, dResult, endVars, store>>

\* the promise of the top-level deleteAntragFiles call resolves
DeleteDone ==
  /\ pc = "delete" /\ dpc = "ret" /\ dCaller = "top"
  /\ dpc' = "idle"
  /\ Return(Outcome(dResult))
  /\ pc' = "done"
  /\ UNCHANGED <<buildVars, pairVars, inputVars, timestamp, i, attempt, uploaded, blobPathname, uploadedUrls, pending,
                 dCaller, dUrls, dMaxRetries, dRetryDelay, dAttempt, deletedUrls, remainingUrls, dResult,
                 store, trace>>

(* ---------------- prisma/vercel-build.js ---------------- *)
\* what a db step can do: return a truthy or a falsy value, or throw
StepResults == {"truthy", "falsy", "throws"}
BuildSteps == <<"validateEnvironment", "validateSchema", "deploySchemaSafely">>

\* a script that only stops on an exception
StepPasses_UnlessThrows(r) == r # "throws"

\* if (!db.step()) process.exit(1); a throw goes to the catch, which exits with 1
StepPasses(r) == r = "truthy"

\* process.exit(code) ends the process
ProcessExit(code) == exitCode' = code /\ bpc' = "exited"

\* one db step of main and what follows it up to the next step
RunStep(k, r) ==
  /\ stepLog' = Append(stepLog, [step |-> BuildSteps[k], result |-> r])
  /\ IF ~StepPasses(r) THEN ProcessExit(1)
     ELSE IF k = Len(BuildSteps) THEN ProcessExit(0)
     ELSE bpc' = BuildSteps[k + 1] /\ UNCHANGED exitCode
  /\ UNCHANGED <<soloVars, pairVars>>

\* lines 11-14
ValidateEnvironmentStep == op = "build" /\ bpc = "main" /\ \E r \in StepResults : RunStep(1, r)
\* lines 16-19
ValidateSchemaStep == bpc = "validateSchema" /\ \E r \in StepResults : RunStep(2, r)
\* lines 21-31
DeploySchemaSafelyStep == bpc = "deploySchemaSafely" /\ \E r \in StepResults : RunStep(3, r)

Next ==
  \/ Validate
  \/ ForStep
  \/ WhileStep
  \/ PutReturns
  \/ PutRaises
  \/ Catch
  \/ SleepDone
  \/ CleanupDoneInner
  \/ OuterCatch
  \/ CleanupDoneOuter
  \/ DeleteCall
  \/ DelWhile
  \/ DelReturns
  \/ DelRaises
  \/ DelSleepDone
  \/ DeleteDone
  \/ ValidateEnvironmentStep
  \/ ValidateSchemaStep
  \/ DeploySchemaSafelyStep

Spec == Init /\ [][Next]_vars

(* ---------------- two interleaved uploadAntragFiles calls ---------------- *)
\* The same code as above, run by two callers at once on one store; every
\* local lives in calls[p].  The store and the clock are all they share.
Procs == {1, 2}
PairFiles == {FileA, FileB}
PairRetries == {0, 1}
ClockValues == {1700, 1701}

NewCall(fs, maxR) ==
  [pc |-> "start", files |-> fs, maxRetries |-> maxR, timestamp |-> 0, i |-> 0,
   attempt |-> 0, uploaded |-> FALSE, blobPathname |-> <<>>, uploadedUrls |-> <<>>,
   pending |-> NoError, dAttempt |-> 0, remainingUrls |-> <<>>, after |-> "none",
   paths |-> <<>>, outcome |-> "running", retval |-> <<>>, error |-> NoError]

InitPair ==
  /\ op = "pair"
  /\ SoloIdle
  /\ LocalsInit
  /\ bpc = "idle" /\ stepLog = <<>> /\ exitCode = -1
  /\ calls \in [Procs -> {NewCall(fs, m) : fs \in SeqsUpTo(PairFiles, 2), m \in PairRetries}]
  /\ blobs = {}
  /\ now = 1700

Set(p, c) == calls' = [calls EXCEPT ![p] = c]
Me(p) == calls[p]
PairFrame == UNCHANGED <<soloVars, buildVars>>

\* the clock advances between two steps
Tick ==
  /\ op = "pair"
  /\ now + 1 \in ClockValues
  /\ now' = now + 1
  /\ UNCHANGED <<calls, blobs>>
  /\ PairFrame

\* lines 87-96
PValidate(p) ==
  /\ op = "pair" /\ Me(p).pc = "start"
  /\ LET v == UploadPrecheck(Me(p).files, "list")
     IN  IF v # NoError
         THEN Set(p, [Me(p) EXCEPT !.pc = "done", !.outcome = "raised", !.error = v])
         ELSE IF Len(Me(p).files) = 0
         THEN Set(p, [Me(p) EXCEPT !.pc = "done", !.outcome = "returned", !.retval = <<>>])
         ELSE Set(p, [Me(p) EXCEPT !.pc = "for", !.timestamp = now, !.i = 1])
  /\ UNCHANGED <<blobs, now>>
  /\ PairFrame

\* lines 100-106 and 153
PForStep(p) ==
  /\ Me(p).pc = "for"
  /\ LET c == Me(p)
     IN  IF c.i > Len(c.files)
         THEN Set(p, [c EXCEPT !.pc = "done", !.outcome = "returned", !.retval = c.uploadedUrls])
         ELSE IF ~c.files[c.i].named
         THEN Set(p, [c EXCEPT !.pc = "outer", !.pending = TypeError])
         ELSE LET path == BlobPathname(c.timestamp, c.i, c.files[c.i])
              IN  Set(p, [c EXCEPT !.pc = "while", !.blobPathname = path, !.attempt = 0,
                                   !.uploaded = FALSE, !.paths = Append(c.paths, path)])
  /\ UNCHANGED <<blobs, now>>
  /\ PairFrame

\* lines 108-117
PWhileStep(p) ==
  /\ Me(p).pc = "while"
  /\ LET c == Me(p)
     IN  IF c.attempt <= c.maxRetries /\ ~c.uploaded
         THEN Set(p, [c EXCEPT !.pc = IF c.files[c.i].readable THEN "put" ELSE "catch"])
         ELSE Set(p, [c EXCEPT !.pc = "for", !.i = c.i + 1])
  /\ UNCHANGED <<blobs, now>>
  /\ PairFrame

\* lines 117-126: put resolves; a blob already at this pathname is replaced
PPutReturns(p) ==
  /\ Me(p).pc = "put"
  /\ LET c == Me(p)
         url == UrlOf(c.blobPathname)
     IN  /\ blobs' = blobs \cup {url}
         /\ Set(p, [c EXCEPT !.pc = "while", !.uploaded = TRUE,
                             !.uploadedUrls = PushUrl(c.uploadedUrls, url)])
  /\ UNCHANGED now
  /\ PairFrame

\* line 127: put rejects
PPutRaises(p) ==
  /\ Me(p).pc = "put"
  /\ Set(p, [Me(p) EXCEPT !.pc = "catch"])
  /\ UNCHANGED <<blobs, now>>
  /\ PairFrame

\* deleteAntragFiles(uploadedUrls) called from a catch block
PEnterDelete(c, from) ==
  [c EXCEPT !.after = from, !.dAttempt = 0, !.remainingUrls = c.uploadedUrls,
            !.pc = IF Len(c.uploadedUrls) = 0 THEN "dret" ELSE "dwhile"]

\* lines 128-147
PCatch(p) ==
  /\ Me(p).pc = "catch"
  /\ LET c == Me(p)
     IN  IF Exhausted(c.attempt, c.maxRetries)
         THEN IF NeedsCleanup(c.uploadedUrls)
              THEN Set(p, PEnterDelete(c, "inner"))
              ELSE Set(p, [c EXCEPT !.pc = "outer", !.pending = InnerThrow(c.files[c.i])])
         ELSE Set(p, [c EXCEPT !.pc = "sleep"])
  /\ UNCHANGED <<blobs, now>>
  /\ PairFrame

\* lines 147-148
PSleepDone(p) ==
  /\ Me(p).pc = "sleep"
  /\ Set(p, [Me(p) EXCEPT !.pc = "while", !.attempt = Me(p).attempt + 1])
  /\ UNCHANGED <<blobs, now>>
  /\ PairFrame

\* lines 154-166
POuterCatch(p) ==
  /\ Me(p).pc = "outer"
  /\ LET c == Me(p)
     IN  IF OuterRethrows(c.pending)
         THEN Set(p, [c EXCEPT !.pc = "done", !.outcome = "raised", !.error = c.pending])
         ELSE IF NeedsCleanup(c.uploadedUrls)
         THEN Set(p, PEnterDelete(c, "outer"))
         ELSE Set(p, [c EXCEPT !.pc = "done", !.outcome = "raised", !.error = GenericUploadError])
  /\ UNCHANGED <<blobs, now>>
  /\ PairFrame

\* lines 198-205 and 234-237
PDelWhile(p) ==
  /\ Me(p).pc = "dwhile"
  /\ LET c == Me(p)
     IN  Set(p, [c EXCEPT !.pc = IF c.dAttempt <= DefaultMaxRetries /\ Len(c.remainingUrls) > 0
                                 THEN "del" ELSE "dret"])
  /\ UNCHANGED <<blobs, now>>
  /\ PairFrame

\* lines 205-212: del resolves
PDelReturns(p) ==
  /\ Me(p).pc = "del"
  /\ blobs' = blobs \ SeqRange(Me(p).remainingUrls)
  /\ Set(p, [Me(p) EXCEPT !.pc = "dret", !.remainingUrls = <<>>])
  /\ UNCHANGED now
  /\ PairFrame

\* lines 213-228: del rejects
PDelRaises(p) ==
  /\ Me(p).pc = "del"
  /\ Set(p, [Me(p) EXCEPT !.pc = IF Exhausted(Me(p).dAttempt, DefaultMaxRetries) THEN "dret" ELSE "dsleep"])
  /\ UNCHANGED <<blobs, now>>
  /\ PairFrame

\* lines 228-229
PDelSleepDone(p) ==
  /\ Me(p).pc = "dsleep"
  /\ Set(p, [Me(p) EXCEPT !.pc = "dwhile", !.dAttempt = Me(p).dAttempt + 1])
  /\ UNCHANGED <<blobs, now>>
  /\ PairFrame

\* lines 134-141 and 163-171: the cleanup has settled, the catch block throws
PCleanupDone(p) ==
  /\ Me(p).pc = "dret"
  /\ LET c == Me(p)
     IN  IF c.after = "inner"
         THEN Set(p, [c EXCEPT !.pc = "outer", !.pending = InnerThrow(c.files[c.i])])
         ELSE Set(p, [c EXCEPT !.pc = "done", !.outcome = "raised", !.error = GenericUploadError])
  /\ UNCHANGED <<blobs, now>>
  /\ PairFrame

NextPair ==
  \/ Tick
  \/ \E p \in Procs : PValidate(p)
  \/ \E p \in Procs : PForStep(p)
  \/ \E p \in Procs : PWhileStep(p)
  \/ \E p \in Procs : PPutReturns(p)
  \/ \E p \in Procs : PPutRaises(p)
  \/ \E p \in Procs : PCatch(p)
  \/ \E p \in Procs : PSleepDone(p)
  \/ \E p \in Procs : POuterCatch(p)
  \/ \E p \in Procs : PDelWhile(p)
  \/ \E p \in Procs : PDelReturns(p)
  \/ \E p \in Procs : PDelRaises(p)
  \/ \E p \in Procs : PDelSleepDone(p)
  \/ \E p \in Procs : PCleanupDone(p)

SpecPair == InitPair /\ [][NextPair]_vars

(* ---------------- reading the history ---------------- *)
EvIdx(e) == {n \in 1..Len(trace) : trace[n].ev = e}
Count(e) == Cardinality(EvIdx(e))
EventsOf(e) == SelectSeq(trace, LAMBDA x : x.ev = e)
Cleanups == EventsOf("cleanup")
DelCalls == EventsOf("del")
\* the urls put returned for the k-th file
StoreReturned(k) == {trace[n].arg : n \in {m \in EvIdx("putOk") : trace[m].file = k}}
\* the urls put returned for files 1..k-1, in input order
UrlsBefore(k) == [j \in 1..(k - 1) |-> CHOOSE u \in StoreReturned(j) : TRUE]
\* the last allowed attempt for the k-th file has raised
ExhaustedFile(k) ==
  \E n \in 1..Len(trace) :
    /\ trace[n].ev \in {"putErr", "readErr"}
    /\ trace[n].file = k
    /\ trace[n].arg >= maxRetries
\* what happened to the k-th file: its attempts and the waits between them
FileTrace(k) ==
  SelectSeq(trace, LAMBDA x : x.ev \in {"put", "putErr", "readErr", "sleep", "wake"} /\ x.file = k)
PutCount(k) == Cardinality({n \in EvIdx("put") : trace[n].file = k})
SleepsOf(k) == SelectSeq(trace, LAMBDA x : x.ev = "sleep" /\ x.file = k)
InFlightPuts == Count("put") - Count("putOk") - Count("putErr")
UploadDone == op = "upload" /\ outcome # "running"
FileIdx == 1..Len(files)

(* ---------------- claims ---------------- *)

\* the shared checks and the total-size check, as the validation contract lists them
InvalidBatch(fs) ==
  \/ Len(fs) > ANTRAG_COUNT
  \/ \E k \in 1..Len(fs) : fs[k].size > ANTRAG
  \/ \E k \in 1..Len(fs) : fs[k].type \notin FILE_TYPES_ANTRAG
  \/ SumSizes(fs) > ANTRAG_TOTAL

\* C1: for a batch of N files accepted by validation, whatever maxRetries,
\* retryDelay and the store do, uploadAntragFiles returns exactly N urls, the
\* i-th being the one the store returned for the i-th file, or it raises.
C1_FullListOrRaise ==
  (op = "upload" /\ ~InvalidBatch(files) /\ outcome = "returned") =>
    /\ Len(retval) = Len(files)
    /\ \A k \in FileIdx : StoreReturned(k) = {retval[k]}

\* C2 as stated: when the k-th file has exhausted its attempts and the call
\* has raised, the compensating deletion of the urls of files 1..k-1 has been
\* issued exactly once.
C2_CleanupExactlyOnce ==
  \A k \in FileIdx :
    (op = "upload" /\ outcome = "raised" /\ ExhaustedFile(k)) =>
      /\ Len(Cleanups) = 1
      /\ Cleanups[1].arg = UrlsBefore(k)

\* C2 amended: for k >= 2 deleteAntragFiles has been invoked exactly once, with
\* the urls of files 1..k-1 in order, and each of its 1 to 4 del calls is
\* given that list; for k = 1 nothing was uploaded and no deletion is issued.
C2_CleanupOnceWhenUploaded ==
  \A k \in FileIdx :
    (op = "upload" /\ outcome = "raised" /\ ExhaustedFile(k)) =>
      IF k >= 2
      THEN /\ Len(Cleanups) = 1
           /\ Cleanups[1].arg = UrlsBefore(k)
           /\ Len(DelCalls) \in 1..(DefaultMaxRetries + 1)
           /\ \A n \in 1..Len(DelCalls) : DelCalls[n].arg = UrlsBefore(k)
      ELSE Len(Cleanups) = 0 /\ Len(DelCalls) = 0

C2_Witness ==
  /\ op = "upload" /\ outcome = "raised"
  /\ \E k \in FileIdx : k >= 2 /\ ExhaustedFile(k)
  /\ Len(Cleanups) = 1

\* C3 as stated: a completed call has either stored every file and returned
\* the full url list, or raised with no file of the batch left in the store.
C3_AllOrNothing ==
  UploadDone =>
    \/ /\ outcome = "returned"
       /\ Len(retval) = Len(files)
       /\ store = SeqRange(retval)
    \/ /\ outcome = "raised"
       /\ store = {}

\* C3 amended: a completed call has either returned a url list whose urls are
\* all stored and none deleted (one url per file when maxRetries >= 0), or
\* raised; after a raise no file of the batch is stored if nothing had been
\* uploaded or some del attempt of the cleanup completed, and every earlier
\* upload is still stored if all 4 del attempts raised.
C3_RollbackBestEffort ==
  UploadDone =>
    \/ /\ outcome = "returned"
       /\ maxRetries >= 0 => Len(retval) = Len(files)
       /\ store = SeqRange(retval)
       /\ Cardinality(store) = Len(retval)
       /\ Len(DelCalls) = 0
    \/ /\ outcome = "raised"
       /\ IF Len(uploadedUrls) = 0 \/ Count("delOk") > 0
          THEN store = {}
          ELSE /\ store = SeqRange(uploadedUrls)
               /\ Count("delErr") = DefaultMaxRetries + 1

C3_Witness ==
  /\ UploadDone /\ outcome = "raised"
  /\ Len(uploadedUrls) > 0
  /\ Count("delOk") = 1
  /\ store = {}

\* C4: when validateAntragFiles fails for the input, uploadAntragFiles raises
\* that ValidationError and never issues a put, a del or a cleanup.
C4_ValidationBeforeIO ==
  (op = "upload" /\ ValidateAntragFiles(files, vfStyle) # NoError) =>
    /\ trace = <<>>
    /\ store = {}
    /\ pc \in {"start", "done"}
    /\ pc = "done" => (outcome = "raised" /\ error = ValidateAntragFiles(files, vfStyle))

C4_Witness ==
  /\ op = "upload" /\ pc = "done" /\ outcome = "raised"
  /\ error = ValidationError("fileSizeExceeds")
  /\ trace = <<>>

\* the k-th file failing every attempt: attempt a (0-based), then, unless it
\* was the last one, a wait of retryDelay * 2^a that ends before the next attempt
RECURSIVE FailingRun(_, _)
FailingRun(k, a) ==
  (IF files[k].readable
   THEN <<Ev("put", k, BlobPathname(timestamp, k, files[k])), Ev("putErr", k, a)>>
   ELSE <<Ev("readErr", k, a)>>)
  \o (IF a < maxRetries
      THEN <<Ev("sleep", k, retryDelay * Pow2(a)), Ev("wake", k, a)>> \o FailingRun(k, a + 1)
      ELSE <<>>)

\* C5: a permanently failing file gets exactly maxRetries+1 attempts, each
\* finished before the wait that follows it and each wait finished before the
\* next attempt, the j-th wait being retryDelay * 2^(j-1), with no wait after
\* the last attempt; with maxRetries=3 and retryDelay=1000 that is 4 puts and
\* waits of 1000, 2000 and 4000 ms.  At most one put is in flight.
C5_RetrySchedule ==
  /\ InFlightPuts = (IF pc = "put" THEN 1 ELSE 0)
  /\ \A k \in FileIdx :
       ExhaustedFile(k) =>
         /\ FileTrace(k) = FailingRun(k, 0)
         /\ (maxRetries = 3 /\ retryDelay = 1000 /\ files[k].readable) =>
              /\ PutCount(k) = 4
              /\ SleepsOf(k) = <<Ev("sleep", k, 1000), Ev("sleep", k, 2000), Ev("sleep", k, 4000)>>

C5_Witness ==
  /\ op = "upload" /\ outcome = "raised"
  /\ maxRetries = 3 /\ retryDelay = 1000
  /\ Len(files) > 0 /\ files[1].readable /\ ExhaustedFile(1)
  /\ PutCount(1) = 4

\* the same calls, for callers that pass a non-negative maxRetries and a
\* validateFiles that always lists the errors of an invalid batch
InitRetries == Init /\ maxRetries >= 0 /\ vfStyle # "absent"
SpecRetries == InitRetries /\ [][Next]_vars

\* C6 as stated: deleteAntragFiles never raises, and success is true exactly
\* when some del attempt given every requested url completed without raising.
C6_SuccessIffDelCompleted ==
  /\ op = "delete" => outcome # "raised"
  /\ dResult.set =>
       (dResult.success <=> \E n \in EvIdx("delOk") : trace[n].arg = dUrls)

\* C6 amended: deleteAntragFiles never raises and returns {success,
\* deletedUrls}; for a non-empty url list success is true exactly when some
\* del attempt given every requested url completed without raising; for the
\* empty list success is true although no del attempt is made.
C6_SuccessIffDelCompletedNonEmpty ==
  /\ op = "delete" => outcome # "raised"
  /\ (op = "delete" /\ outcome = "returned") =>
       (dResult.set /\ retval = Outcome(dResult) /\ dUrls = urls)
  /\ dResult.set =>
       IF Len(dUrls) > 0
       THEN dResult.success <=> \E n \in EvIdx("delOk") : trace[n].arg = dUrls
       ELSE dResult.success /\ Count("del") = 0

C6_Witness ==
  /\ op = "delete" /\ outcome = "returned"
  /\ Len(urls) = 2
  /\ retval.success
  /\ Count("delErr") > 0
  /\ Count("delOk") = 1

\* C7: for a non-empty batch validateAntragFiles raises a ValidationError with
\* a 'files' message exactly when the count, a file size, a media type or the
\* total size is out of bounds, whether or not validateFiles lists errors.
C7_RaisesIffInvalid ==
  (op = "upload" /\ pc # "start" /\ Len(files) > 0) =>
    (InvalidBatch(files) <=>
       (outcome = "raised" /\ error.kind = "ValidationError" /\ Head(error.message) = "files"))

\* C8: when a file has exhausted its attempts, the caller observes the
\* file-upload AppError naming that file, whether the cleanup was not needed,
\* succeeded or failed on every attempt.
C8_OriginalErrorSurvives ==
  \A k \in FileIdx :
    (UploadDone /\ ExhaustedFile(k)) =>
      /\ outcome = "raised"
      /\ error = FileUploadError(files[k])
      /\ error # GenericUploadError

C8_Witness ==
  /\ UploadDone
  /\ \E k \in FileIdx : ExhaustedFile(k) /\ error = FileUploadError(files[k])
  /\ Len(Cleanups) = 1
  /\ Count("delErr") = DefaultMaxRetries + 1
  /\ Count("delOk") = 0

\* C9: an error that escapes uploadAntragFiles is a ValidationError, the
\* per-file file-upload AppError or the generic one; the raw errors of put,
\* del, arrayBuffer and the path derivation never reach the caller.
C9_OnlyTypedErrorsEscape ==
  (op = "upload" /\ outcome = "raised") =>
    \/ error = ValidateAntragFiles(files, vfStyle)
    \/ \E k \in FileIdx : error = FileUploadError(files[k])
    \/ error = GenericUploadError

C9_Witness ==
  /\ op = "upload" /\ outcome = "raised"
  /\ error = GenericUploadError
  /\ pending = TypeError
  /\ Count("delErr") > 0

\* C10: uploadAntragFiles([]) returns [] and deleteAntragFiles([]) returns
\* {success: true, deletedUrls: []}, with no put, del or wait.
C10_EmptyInput ==
  /\ (op = "upload" /\ Len(files) = 0) =>
       /\ trace = <<>>
       /\ pc = "done" => (outcome = "returned" /\ retval = <<>>)
       /\ pc \in {"start", "done"}
  /\ (op = "delete" /\ Len(urls) = 0) =>
       /\ trace = <<>>
       /\ pc = "done" => (outcome = "returned" /\ retval = [success |-> TRUE, deletedUrls |-> <<>>])
       /\ pc \in {"start", "delete", "done"}

C10_Witness ==
  /\ op = "delete" /\ Len(urls) = 0
  /\ outcome = "returned"
  /\ retval.success
  /\ trace = <<>>

\* positions in the history where an attempt for the f-th file starts
AttemptIdx(f) == {n \in 1..Len(trace) : trace[n].ev \in {"put", "readErr"} /\ trace[n].file = f}
\* the 1-indexed number of the attempt that starts at position n
AttemptNo(n) == Cardinality({m \in AttemptIdx(trace[n].file) : m <= n})
\* positions where the last allowed attempt of a file raised
ExhaustIdx ==
  {n \in 1..Len(trace) : trace[n].ev \in {"putErr", "readErr"} /\ trace[n].arg >= maxRetries}

\* C11: files are processed in input order and one at a time: a put for file
\* k > 1 starts only after a put for file k-1 succeeded, every earlier put has
\* settled when a put starts, and once a file has exhausted its attempts no
\* put is started for it or for a later file.
C11_SequentialInOrder ==
  op = "upload" =>
    /\ InFlightPuts \in {0, 1}
    /\ \A n \in EvIdx("put") :
         LET k == trace[n].file
             earlier == 1..(n - 1)
         IN  /\ k > 1 => \E m \in earlier : trace[m].ev = "putOk" /\ trace[m].file = k - 1
             /\ \A m \in earlier : trace[m].ev = "put" => trace[m].file <= k
             /\ Cardinality({m \in earlier : trace[m].ev = "put"})
                  = Cardinality({m \in earlier : trace[m].ev \in {"putOk", "putErr"}})
             /\ \A m \in earlier : m \in ExhaustIdx => trace[m].file > k

C11_Witness ==
  /\ op = "upload" /\ outcome = "raised"
  /\ ~InvalidBatch(files) /\ Len(files) = 2
  /\ maxRetries >= 1
  /\ PutCount(1) = 1 /\ PutCount(2) = maxRetries + 1
  /\ ExhaustedFile(2)

\* C12 as stated: the wait just before attempt k >= 2 of a file is
\* retryDelay * 2^(k-1) and has ended when the attempt starts.
C12_DelayBeforeAttempt ==
  \A n \in 1..Len(trace) :
    (trace[n].ev \in {"put", "readErr"} /\ AttemptNo(n) >= 2) =>
      /\ trace[n - 1].ev = "wake"
      /\ trace[n - 2].ev = "sleep"
      /\ trace[n - 2].arg = retryDelay * Pow2(AttemptNo(n) - 1)

\* C12 amended: the wait just before attempt k >= 2 of a file is
\* retryDelay * 2^(k-2) (retryDelay before the second attempt) and has ended
\* when the attempt starts.
C12_DelayBeforeAttemptShifted ==
  \A n \in 1..Len(trace) :
    (trace[n].ev \in {"put", "readErr"} /\ AttemptNo(n) >= 2) =>
      /\ trace[n - 1].ev = "wake"
      /\ trace[n - 1].file = trace[n].file
      /\ trace[n - 2].ev = "sleep"
      /\ trace[n - 2].file = trace[n].file
      /\ trace[n - 2].arg = retryDelay * Pow2(AttemptNo(n) - 2)

C12_Witness ==
  /\ op = "upload" /\ retryDelay = 1000
  /\ \E n \in EvIdx("put") :
       /\ AttemptNo(n) = 3
       /\ trace[n - 2] = Ev("sleep", trace[n].file, 2000)

\* C13: every del call of deleteAntragFiles gets the complete requested list;
\* there are at most maxRetries+1 del calls and none after one that succeeded;
\* the wait after the j-th failed attempt is retryDelay * 2^(j-1) and ends
\* before the next del (the last allowed attempt is followed by the return);
\* deletedUrls is the full list with success=true or empty with success=false.
C13_DeleteAllOrNothing ==
  /\ \A n \in EvIdx("del") :
       /\ trace[n].arg = dUrls
       /\ trace[n].file = 0 \/ trace[n - 1].ev = "dwake"
       /\ \A m \in 1..(n - 1) : trace[m].ev # "delOk"
  /\ Count("del") <= (IF dMaxRetries >= 0 THEN dMaxRetries + 1 ELSE 0)
  /\ \A n \in EvIdx("delErr") :
       LET j == Cardinality({m \in EvIdx("delErr") : m <= n})
       IN  IF j <= dMaxRetries
           THEN /\ Len(trace) > n
                /\ trace[n + 1] = Ev("dsleep", j - 1, dRetryDelay * Pow2(j - 1))
           ELSE Len(trace) = n /\ j = dMaxRetries + 1
  /\ dResult.set =>
       \/ dResult.success /\ dResult.deletedUrls = dUrls
       \/ ~dResult.success /\ dResult.deletedUrls = <<>>

C13_Witness ==
  /\ op = "delete" /\ outcome = "returned"
  /\ Len(urls) = 2 /\ maxRetries >= 2
  /\ ~retval.success /\ retval.deletedUrls = <<>>
  /\ Count("del") = maxRetries + 1
  /\ Count("dsleep") = maxRetries

\* the urls put has returned so far, in the order it returned them
PutOkUrls == [n \in 1..Count("putOk") |-> EventsOf("putOk")[n].arg]

\* C14: when the path derivation raises (outside the per-attempt try), the
\* urls uploaded so far are handed to one compensating deletion, none at all
\* if nothing was uploaded, and the call fails with the generic AppError.
C14_UnexpectedErrorCleanup ==
  (op = "upload" /\ pending = TypeError) =>
    /\ outcome # "returned"
    /\ Len(Cleanups) = (IF pc # "outer" /\ Len(uploadedUrls) > 0 THEN 1 ELSE 0)
    /\ Len(Cleanups) = 1 => Cleanups[1].arg = PutOkUrls
    /\ uploadedUrls = PutOkUrls
    /\ outcome = "raised" => error = GenericUploadError

C14_Witness ==
  /\ op = "upload" /\ outcome = "raised"
  /\ pending = TypeError /\ error = GenericUploadError
  /\ Len(Cleanups) = 1 /\ Count("delOk") = 1

RECURSIVE SumArgs(_)
SumArgs(evs) == IF evs = <<>> THEN 0 ELSE Head(evs).arg + SumArgs(Tail(evs))
\* sum_{k=1..m} r * 2^(k-1)
RECURSIVE BackoffSum(_, _)
BackoffSum(r, m) == IF m <= 0 THEN 0 ELSE r * Pow2(m - 1) + BackoffSum(r, m - 1)
UploadWaits == SumArgs(EventsOf("sleep"))
CleanupWaits == SumArgs(EventsOf("dsleep"))

\* every (call, file index) for which a store path has been derived
PathSlots == {<<p, n>> : p \in Procs, n \in 1..2}
Derived == {sl \in PathSlots : sl[2] <= Len(calls[sl[1]].paths)}
PathsUnique ==
  \A a \in Derived, b \in Derived :
    a # b => calls[a[1]].paths[a[2]] # calls[b[1]].paths[b[2]]
\* within one call the file index keeps the paths apart
PathsUniqueWithinCall ==
  \A a \in Derived, b \in Derived :
    (a # b /\ a[1] = b[1]) => calls[a[1]].paths[a[2]] # calls[b[1]].paths[b[2]]
\* calls that read different clock values derive different paths
PathsUniqueAcrossTicks ==
  \A a \in Derived, b \in Derived :
    calls[a[1]].timestamp # calls[b[1]].timestamp
      => calls[a[1]].paths[a[2]] # calls[b[1]].paths[b[2]]
\* what a call returned is still in the store: no other call's rollback removed it
NoCrossCallDeletion ==
  \A p \in Procs :
    calls[p].outcome = "returned" => SeqRange(calls[p].retval) \subseteq blobs

\* C15: the store path derived for each file is unique across the files of one
\* call and across two interleaved calls, also when both start in the same
\* millisecond, so no call overwrites or deletes a blob of the other.
C15_UniquePathsAcrossCalls ==
  op = "pair" => (PathsUnique /\ NoCrossCallDeletion)

\* C16 as stated: all the waits of an uploadAntragFiles call, those of the
\* compensating deletion included, add up to at most
\* N * sum_{k=1..maxRetries} retryDelay * 2^(k-1).
C16_WaitsBoundedByCaller ==
  op = "upload" =>
    UploadWaits + CleanupWaits <= Len(files) * BackoffSum(retryDelay, maxRetries)

\* C16 amended: the waits between upload attempts add up to at most
\* N * sum_{k=1..maxRetries} retryDelay * 2^(k-1); the compensating deletion
\* runs with deleteAntragFiles' own defaults (3, 1000) and adds up to
\* 1000 + 2000 + 4000 ms whatever maxRetries and retryDelay the caller passed.
C16_WaitsBoundedPlusCleanup ==
  op = "upload" =>
    /\ UploadWaits <= Len(files) * BackoffSum(retryDelay, maxRetries)
    /\ CleanupWaits <= 1000 + 2000 + 4000
    /\ CleanupWaits > 0 => (dMaxRetries = 3 /\ dRetryDelay = 1000)

C16_Witness ==
  /\ op = "upload" /\ outcome = "raised"
  /\ maxRetries = 0 /\ retryDelay = 250
  /\ UploadWaits = 0
  /\ CleanupWaits = 7000

\* C17: during an uploadAntragFiles call del (and the cleanup that issues it)
\* only gets urls that put returned earlier in the same call, and a call that
\* returns its url list has issued no del.
C17_DelOnlyOwnUrlsOnFailure ==
  op = "upload" =>
    /\ \A n \in EvIdx("del") \cup EvIdx("cleanup") :
         SeqRange(trace[n].arg) \subseteq {trace[m].arg : m \in {x \in EvIdx("putOk") : x < n}}
    /\ Count("del") > 0 => (Count("cleanup") = 1 /\ outcome # "returned"
                            /\ pc \in {"cleanup", "outer", "outerCleanup", "done"})
    /\ outcome = "returned" => (Count("del") = 0 /\ Count("cleanup") = 0)

C17_Witness ==
  /\ op = "upload" /\ outcome = "raised"
  /\ Count("del") = 2
  /\ Len(DelCalls[1].arg) = 2
  /\ Count("delOk") = 1

\* every step that is enabled (a put, del or wait that settles, or the code
\* that follows it) is eventually taken
FairSpec == Spec /\ WF_vars(Next)

Finished == op \in {"upload", "delete"} => outcome # "running"

\* C18: with every put, del and wait settling eventually, an uploadAntragFiles
\* call with maxRetries >= 0 ends after at most N * (maxRetries + 1) put calls
\* and at most 4 del calls, and a deleteAntragFiles call ends after at most
\* maxRetries + 1 del calls.
C18_TerminatesWithinBounds ==
  /\ [](/\ (op = "upload" /\ maxRetries >= 0) =>
            (Count("put") <= Len(files) * (maxRetries + 1) /\ Count("del") <= 4)
        /\ op = "delete" => Count("del") <= (IF maxRetries >= 0 THEN maxRetries + 1 ELSE 0))
  /\ <>Finished

C18_Witness ==
  /\ op = "upload" /\ outcome = "raised"
  /\ Len(files) = 2 /\ maxRetries >= 1
  /\ Count("put") = 2 * (maxRetries + 1)
  /\ Count("del") = 4

\* C19: the build script calls validateEnvironment, validateSchema and
\* deploySchemaSafely in this order, starts no step after one that returned a
\* falsy value or threw, and exits with 0 only if all three succeeded, with 1
\* otherwise.
C19_BuildStepsInOrder ==
  op = "build" =>
    /\ Len(stepLog) <= 3
    /\ \A k \in 1..Len(stepLog) : stepLog[k].step = BuildSteps[k]
    /\ \A k \in 1..(Len(stepLog) - 1) : stepLog[k].result = "truthy"
    /\ exitCode \in {-1, 0, 1}
    /\ (bpc = "exited") <=> (exitCode # -1)
    /\ exitCode = 0 <=> (Len(stepLog) = 3 /\ \A k \in 1..3 : stepLog[k].result = "truthy")
    /\ exitCode = 1 <=> (stepLog # <<>> /\ stepLog[Len(stepLog)].result # "truthy")

C19_Witness ==
  /\ op = "build" /\ bpc = "exited" /\ exitCode = 1
  /\ Len(stepLog) = 2
  /\ stepLog[2] = [step |-> "validateSchema", result |-> "falsy"]

====
